---- MODULE Spec2Model ----
(***************************************************************************)
(* Model of main.py: a one-shot scraper.  get_page fetches a URL,          *)
(* get_pagination_links discovers the page URLs of a listing,              *)
(* parse_page extracts one dict per card-body block, save_to_csv and       *)
(* save_to_json export the batches, and the __main__ block drives them.    *)
(*                                                                         *)
(* Text is a sequence of one-character strings.  An HTML document is a     *)
(* sequence of element records [tag, class, attrs, text, kids]; None is    *)
(* the document record with isNone = TRUE.  A Python dict is the sequence  *)
(* of its <<key, value>> items in insertion order.  A call's outcome is a  *)
(* record holding the exception raised ("" when none) and the value.       *)
(***************************************************************************)
EXTENDS Integers, Sequences, FiniteSets, TLC

VARIABLES pc, html, pagination_links, page_i, all_data, csv_file, json_file,
          stdout, exc, fetched, responses, args, ret

vars == <<pc, html, pagination_links, page_i, all_data, csv_file, json_file,
          stdout, exc, fetched, responses, args, ret>>

driverVars == <<pc, html, pagination_links, page_i, all_data, csv_file,
                json_file, stdout, exc, fetched, responses>>

(* ---------------------------------------------------------------- bounds *)

MaxAnchors == 2

MaxBlocks == 2

MaxBatches == 2

MaxRecords == 2

SeqsUpTo(S, n) == UNION {[1..k -> S] : k \in 0..n}

(* ------------------------------------------------------------------ text *)

Letters == {"a","b","c","d","e","f","g","h","i","j","k","l","m",
            "n","o","p","q","r","s","t","u","v","w","x","y","z"}

Digits == {"0","1","2","3","4","5","6","7","8","9"}

\* \w of the pattern at line 67
WordChars == Letters \cup Digits \cup {"_"}

\* [\w.-] of the pattern at line 67
HostChars == WordChars \cup {".", "-"}

\* the characters str.strip() removes
Whitespace == {" ", "\n", "\t"}

RECURSIVE lstrip(_)
lstrip(s) ==
  IF s # <<>> /\ Head(s) \in Whitespace THEN lstrip(Tail(s)) ELSE s

RECURSIVE rstrip(_)
rstrip(s) ==
  IF s # <<>> /\ s[Len(s)] \in Whitespace
  THEN rstrip(SubSeq(s, 1, Len(s) - 1))
  ELSE s

\* strip removing leading whitespace only
strip_left(s) == lstrip(s)

strip(s) == rstrip(lstrip(s))

StartsWith(s, p) == Len(s) >= Len(p) /\ SubSeq(s, 1, Len(p)) = p

(* ------------------------------------------------ BeautifulSoup elements *)

None == [isNone |-> TRUE, nodes |-> <<>>]

Doc(nodes) == [isNone |-> FALSE, nodes |-> nodes]

El(tag, class, attrs, text, kids) ==
  [tag |-> tag, class |-> class, attrs |-> attrs, text |-> text, kids |-> kids]

\* every element below a sequence of nodes, in document order
RECURSIVE Descendants(_)
Descendants(nodes) ==
  IF nodes = <<>> THEN <<>>
  ELSE <<Head(nodes)>> \o Descendants(Head(nodes).kids) \o Descendants(Tail(nodes))

\* a one-word class_ matches any class of the element, a class_ of several
\* words matches only the element's whole class attribute
MatchClass(el, class_) ==
  IF Len(class_) = 1
  THEN \E i \in 1..Len(el.class) : el.class[i] = class_[1]
  ELSE el.class = class_

find_all(nodes, tag, class_) ==
  SelectSeq(Descendants(nodes), LAMBDA el : el.tag = tag /\ MatchClass(el, class_))

\* find: <<>> is None, <<el>> the first match
find(nodes, tag, class_) ==
  LET all == find_all(nodes, tag, class_)
  IN IF all = <<>> THEN <<>> ELSE <<Head(all)>>

HasAttr(el, name) == \E p \in el.attrs : p[1] = name

Attr(el, name) == (CHOOSE p \in el.attrs : p[1] = name)[2]

\* Tag.text: the element's strings in document order
RECURSIVE TextOf(_)
TextOf(nodes) ==
  IF nodes = <<>> THEN <<>>
  ELSE Head(nodes).text \o TextOf(Head(nodes).kids) \o TextOf(Tail(nodes))

Text(el) == TextOf(<<el>>)

(* ------------------------------------------------------------- outcomes *)

Return(v) == [exc |-> "", val |-> v]

Raise(e) == [exc |-> e, val |-> <<>>]

(* ------------------------------------------------- get_pagination_links *)

\* the longest run of host characters of url from position i on
RECURSIVE HostEnd(_, _)
HostEnd(url, i) ==
  IF i <= Len(url) /\ url[i] \in HostChars THEN HostEnd(url, i + 1) ELSE i

\* re_match for the pattern without the "/" after the host
re_match_noslash(url) ==
  LET http == <<"h","t","t","p">>
      sep == <<":","/","/">>
      n == IF StartsWith(url, http \o <<"s">> \o sep) THEN 8
           ELSE IF StartsWith(url, http \o sep) THEN 7
           ELSE 0
      e == HostEnd(url, n + 1)
  IN IF n > 0 /\ e > n + 1
     THEN <<SubSeq(url, 1, e - 1)>>
     ELSE <<>>

\* re.match(r'(https?://[\w.-]+)/.*', url): <<>> is None, <<g>> a match
\* whose group(1) is g
re_match(url) ==
  LET http == <<"h","t","t","p">>
      sep == <<":","/","/">>
      n == IF StartsWith(url, http \o <<"s">> \o sep) THEN 8
           ELSE IF StartsWith(url, http \o sep) THEN 7
           ELSE 0
      e == HostEnd(url, n + 1)
  IN IF n > 0 /\ e > n + 1 /\ e <= Len(url) /\ url[e] = "/"
     THEN <<SubSeq(url, 1, e - 1)>>
     ELSE <<>>

\* LinkLoop dropping a link that is already in the list
RECURSIVE LinkLoopDedup(_, _, _, _)
LinkLoopDedup(page_links_href, i, matches, page_links) ==
  IF i > Len(page_links_href) THEN Return(page_links)
  ELSE LET link == page_links_href[i]
       IN IF ~HasAttr(link, "href") THEN Raise("KeyError")
          ELSE IF matches = <<>> THEN Raise("AttributeError")
          ELSE LET page_link == matches[1] \o Attr(link, "href")
               IN LinkLoopDedup(page_links_href, i + 1, matches,
                    IF \E k \in 1..Len(page_links) : page_links[k] = page_link
                    THEN page_links
                    ELSE Append(page_links, page_link))

\* the loop of lines 75-78 from anchor i on
RECURSIVE LinkLoop(_, _, _, _)
LinkLoop(page_links_href, i, matches, page_links) ==
  IF i > Len(page_links_href) THEN Return(page_links)
  ELSE LET link == page_links_href[i]
       IN IF ~HasAttr(link, "href") THEN Raise("KeyError")
          ELSE IF matches = <<>> THEN Raise("AttributeError")
          ELSE LinkLoop(page_links_href, i + 1, matches,
                        Append(page_links, matches[1] \o Attr(link, "href")))

\* get_pagination_links answering [url] when there is no pagination control
get_pagination_links_self(doc, url) ==
  IF doc.isNone THEN Raise("TypeError")
  ELSE LET matches == re_match(url)
           pagination == find(doc.nodes, "ul", <<"pagination">>)
       IN IF pagination # <<>>
          THEN LinkLoop(find_all(pagination[1].kids, "a", <<"page-link">>),
                        1, matches, <<url>>)
          ELSE Return(<<url>>)

get_pagination_links(doc, url) ==
  IF doc.isNone THEN Raise("TypeError")
  ELSE LET matches == re_match(url)
           pagination == find(doc.nodes, "ul", <<"pagination">>)
       IN IF pagination # <<>>
          THEN LinkLoop(find_all(pagination[1].kids, "a", <<"page-link">>),
                        1, matches, <<url>>)
          ELSE Return(<<>>)

(* ------------------------------------------------------------ parse_page *)

\* lines 41-45 for one block
ParseBlock(block) ==
  LET a == find(block.kids, "a", <<"title">>)
      p == find(block.kids, "p", <<"description", "card-text">>)
      h == find(block.kids, "h4", <<"price">>)
  IN IF a = <<>> THEN Raise("TypeError")
     ELSE IF ~HasAttr(a[1], "title") THEN Raise("KeyError")
     ELSE IF p = <<>> THEN Raise("AttributeError")
     ELSE IF h = <<>> THEN Raise("AttributeError")
     ELSE Return(<< <<"Name", Attr(a[1], "title")>>,
                    <<"Description", strip(Text(p[1]))>>,
                    <<"Price", strip(Text(h[1]))>> >>)

\* BlockLoop skipping a block that raises
RECURSIVE BlockLoopSkip(_, _, _)
BlockLoopSkip(computer_blocks, i, computers_data) ==
  IF i > Len(computer_blocks) THEN Return(computers_data)
  ELSE LET computer == ParseBlock(computer_blocks[i])
       IN BlockLoopSkip(computer_blocks, i + 1,
                        IF computer.exc # "" THEN computers_data
                        ELSE Append(computers_data, computer.val))

\* the loop of lines 40-47 from block i on
RECURSIVE BlockLoop(_, _, _)
BlockLoop(computer_blocks, i, computers_data) ==
  IF i > Len(computer_blocks) THEN Return(computers_data)
  ELSE LET computer == ParseBlock(computer_blocks[i])
       IN IF computer.exc # "" THEN Raise(computer.exc)
          ELSE BlockLoop(computer_blocks, i + 1,
                         Append(computers_data, computer.val))

\* parse_page reading None as a page with no blocks
parse_page_lenient(doc) ==
  BlockLoop(find_all(doc.nodes, "div", <<"card-body">>), 1, <<>>)

parse_page(doc) ==
  IF doc.isNone THEN Raise("TypeError")
  ELSE BlockLoop(find_all(doc.nodes, "div", <<"card-body">>), 1, <<>>)

(* ------------------------------------------------ save_to_csv / to_json *)

Keys(d) == [i \in 1..Len(d) |-> d[i][1]]

HasKey(d, k) == \E i \in 1..Len(d) : d[i][1] = k

\* rowdict.get(key, restval) with restval = ''
DictGet(d, k) ==
  IF HasKey(d, k) THEN d[CHOOSE i \in 1..Len(d) : d[i][1] = k][2] ELSE <<>>

InSeq(x, s) == \E i \in 1..Len(s) : s[i] = x

\* [item for sublist in data for item in sublist], also the order in which
\* the nested loops of lines 99-101 visit the rows
RECURSIVE Flatten(_)
Flatten(data) ==
  IF data = <<>> THEN <<>> ELSE Head(data) \o Flatten(Tail(data))

\* DictWriter.writerow with extrasaction='raise', for the rows from i on;
\* the value is the rows written so far
RECURSIVE RowLoop(_, _, _, _)
RowLoop(rows, i, fieldnames, written) ==
  IF i > Len(rows) THEN [exc |-> "", val |-> written]
  ELSE IF \E k \in 1..Len(rows[i]) : ~InSeq(rows[i][k][1], fieldnames)
  THEN [exc |-> "ValueError", val |-> written]
  ELSE RowLoop(rows, i + 1, fieldnames,
               Append(written,
                      [k \in 1..Len(fieldnames) |-> DictGet(rows[i], fieldnames[k])]))

\* file: <<>> when the file was not opened, else <<its content>>
save_to_csv(data) ==
  IF data # <<>>
  THEN LET fieldnames == IF data[1] # <<>> THEN Keys(data[1][1]) ELSE <<>>
           r == RowLoop(Flatten(data), 1, fieldnames, <<>>)
       IN [exc |-> r.exc, file |-> << [header |-> fieldnames, rows |-> r.val] >>]
  ELSE [exc |-> "", file |-> <<>>]

save_to_json(data) ==
  IF data # <<>>
  THEN [exc |-> "", file |-> << Flatten(data) >>]
  ELSE [exc |-> "", file |-> <<>>]

(* ----------------------------------------------------------- the inputs *)

base_url == <<"h","t","t","p","s",":","/","/","w","e","b","s","c","r","a","p","e","r",".","i","o","/","t","e","s","t","-","s","i","t","e","s","/","e","-","c","o","m","m","e","r","c","e","/","s","t","a","t","i","c","/","c","o","m","p","u","t","e","r","s","/","l","a","p","t","o","p","s">>

Urls ==
  { base_url,
    <<"h","t","t","p",":","/","/","a",".","b","/","c">>,
    <<"h","t","t","p",":","/","/","a">>,
    <<"h","t","t","p",":","/","/","a",":","8","/","x">>,
    <<"f","t","p",":","/","/","a","/","x">>,
    <<"h","t","t","p","s",":","/","/","a","-","b","_","1","/">>,
    <<"h","t","t","p","s",":","/","/","/","x">> }

Hrefs == { <<"/","l","?","p","a","g","e","=","2">>, <<"/","p","3">> }

Anchor(href) == El("a", <<"page-link">>, {<<"href", href>>}, <<"2">>, <<>>)

AnchorNoHref == El("a", <<"page-link">>, {}, <<"2">>, <<>>)

\* an anchor that is no page link
PlainAnchor == El("a", <<"nav-link">>, {<<"href", <<"/","l","?","p","a","g","e","=","2">>>>}, <<"x">>, <<>>)

AnchorKinds == {Anchor(h) : h \in Hrefs} \cup {AnchorNoHref, PlainAnchor}

Li(kids) == El("li", <<"page-item">>, {}, <<>>, kids)

Pagination(tag, class, anchors) ==
  El(tag, class, {}, <<>>, [i \in 1..Len(anchors) |-> Li(<<anchors[i]>>)])

Ul(anchors) == Pagination("ul", <<"pagination", "justify-content-center">>, anchors)

\* markup with no pagination control: nothing, a page link outside any
\* list, a list of another tag, a ul of another class
NoPaginationNodes ==
  { <<>>,
    <<Anchor(<<"/","l","?","p","a","g","e","=","2">>)>>,
    <<Pagination("ol", <<"pagination">>, <<Anchor(<<"/","l","?","p","a","g","e","=","2">>)>>)>>,
    <<Pagination("ul", <<"nav">>, <<Anchor(<<"/","p","3">>)>>)>> }

PaginationNodes ==
  UNION { { <<Ul(as)>>, <<Anchor(<<"/","p","3">>), Ul(as)>> } :
          as \in SeqsUpTo(AnchorKinds, MaxAnchors) }

LinkDocs == {None} \cup {Doc(n) : n \in NoPaginationNodes \cup PaginationNodes}

TitleA(title) ==
  El("a", <<"title">>, {<<"href", <<"/","l","?","p","a","g","e","=","2">>>>, <<"title", title>>}, <<"T">>, <<>>)

Desc(class, text) == El("p", class, {}, text, <<>>)

Price(text) == El("h4", <<"price", "float-end">>, {}, text, <<>>)

Card(kids) == El("div", <<"card-body">>, {}, <<>>, kids)

DescClass == <<"description", "card-text">>

ThinkPad == Card(<< Price(<<" ","$","9","9","9"," ">>),
                    El("h4", <<>>, {}, <<>>, <<TitleA(<<"T","h","i","n","k","P","a","d"," ","X","1">>)>>),
                    Desc(DescClass, <<" ","F","a","s","t"," ","l","a","p","t","o","p"," ">>) >>)

\* a block whose description is only whitespace and whose price is split
\* over a nested element
Plain == Card(<< TitleA(<<"h","p">>),
                 Desc(DescClass, <<" ", "\n">>),
                 El("h4", <<"price">>, {}, <<"\t", "$">>,
                    <<El("span", <<>>, {}, <<"5", "\n">>, <<>>)>>) >>)

GoodBlocks == {ThinkPad, Plain}

NoAnchor == Card(<< Price(<<" ","$","9","9","9"," ">>), Desc(DescClass, <<" ","F","a","s","t"," ","l","a","p","t","o","p"," ">>) >>)

AnchorNoTitle ==
  Card(<< Price(<<" ","$","9","9","9"," ">>),
          El("a", <<"title">>, {<<"href", <<"/","l","?","p","a","g","e","=","2">>>>}, <<"T">>, <<>>),
          Desc(DescClass, <<" ","F","a","s","t"," ","l","a","p","t","o","p"," ">>) >>)

NoDesc == Card(<< Price(<<" ","$","9","9","9"," ">>), TitleA(<<"T","h","i","n","k","P","a","d"," ","X","1">>) >>)

\* the paragraph carries both classes, in the other order
DescSwapped ==
  Card(<< Price(<<" ","$","9","9","9"," ">>), TitleA(<<"T","h","i","n","k","P","a","d"," ","X","1">>),
          Desc(<<"card-text", "description">>, <<" ","F","a","s","t"," ","l","a","p","t","o","p"," ">>) >>)

NoPrice == Card(<< TitleA(<<"T","h","i","n","k","P","a","d"," ","X","1">>), Desc(DescClass, <<" ","F","a","s","t"," ","l","a","p","t","o","p"," ">>) >>)

BadBlocks == {NoAnchor, AnchorNoTitle, NoDesc, DescSwapped, NoPrice}

\* a div that is no card-body block
Banner == El("div", <<"container">>, {}, <<"x">>, <<>>)

ParseDocs ==
  {None} \cup
  {Doc(n) : n \in SeqsUpTo(GoodBlocks \cup BadBlocks \cup {Banner}, MaxBlocks)}

\* the dicts parse_page builds
Computers == {parse_page(Doc(<<b>>)).val[1] : b \in GoodBlocks}

ExportData == SeqsUpTo(SeqsUpTo(Computers, MaxRecords), MaxBatches)

\* what a fetch of the site can answer: None (status other than 200) or a
\* listing page with or without a pagination control and with some blocks
SiteDocs ==
  {None} \cup
  { Doc(p \o c) :
      p \in {<<>>} \cup
            {<<Ul(as)>> : as \in SeqsUpTo({Anchor(<<"/","l","?","p","a","g","e","=","2">>)}, MaxAnchors)},
      c \in {<<>>, <<ThinkPad>>, <<ThinkPad, NoPrice>>} }

(* ------------------------------------------------------------- get_page *)

\* requests.get(url): the site answers with any of its documents
get_page(url) == SiteDocs

(* ------------------------------------------------------------- __main__ *)

Line(msg, data) == [msg |-> msg, data |-> data]

CouldntGetPage == "Couldn't get the page"

CouldntSave == "Couldn't save data into the files"

Saved == "All data had been saved into computers_data.csv and computers_data.json"

NoCall == [fn |-> "", out |-> <<>>]

Init ==
  /\ pc = "get_base"
  /\ html = None
  /\ pagination_links = <<>>
  /\ page_i = 1
  /\ all_data = <<>>
  /\ csv_file = <<>>
  /\ json_file = <<>>
  /\ stdout = <<>>
  /\ exc = ""
  /\ fetched = <<>>
  /\ responses = <<>>
  /\ args = <<>>
  /\ ret = NoCall

\* line 125
GetBasePage ==
  /\ pc = "get_base"
  /\ \E doc \in get_page(base_url) :
       /\ html' = doc
       /\ responses' = Append(responses, doc)
  /\ fetched' = Append(fetched, base_url)
  /\ pc' = "links"
  /\ UNCHANGED <<pagination_links, page_i, all_data, csv_file, json_file,
                 stdout, exc, args, ret>>

\* lines 127-131 and 149-150
GetPaginationLinks ==
  /\ pc = "links"
  /\ LET r == get_pagination_links(html, base_url)
     IN IF r.exc # ""
        THEN /\ exc' = r.exc
             /\ pc' = "crashed"
             /\ UNCHANGED <<pagination_links, stdout>>
        ELSE /\ pagination_links' = r.val
             /\ IF r.val # <<>>
                THEN pc' = "get_page" /\ stdout' = stdout
                ELSE /\ pc' = "done"
                     /\ stdout' = Append(stdout, Line(CouldntGetPage, <<>>))
             /\ exc' = exc
  /\ UNCHANGED <<html, page_i, all_data, csv_file, json_file, fetched,
                 responses, args, ret>>

\* lines 133-134
GetPage ==
  /\ pc = "get_page"
  /\ \E doc \in get_page(pagination_links[page_i]) :
       /\ html' = doc
       /\ responses' = Append(responses, doc)
  /\ fetched' = Append(fetched, pagination_links[page_i])
  /\ pc' = "parse"
  /\ UNCHANGED <<pagination_links, page_i, all_data, csv_file, json_file,
                 stdout, exc, args, ret>>

\* ParsePage putting the batch in front of the earlier ones
ParsePagePrepend ==
  /\ pc = "parse"
  /\ LET page_data == parse_page(html)
     IN IF page_data.exc # ""
        THEN /\ exc' = page_data.exc
             /\ pc' = "crashed"
             /\ UNCHANGED <<all_data, page_i>>
        ELSE /\ all_data' = <<page_data.val>> \o all_data
             /\ page_i' = page_i + 1
             /\ pc' = IF page_i < Len(pagination_links) THEN "get_page" ELSE "print"
             /\ exc' = exc
  /\ UNCHANGED <<html, pagination_links, csv_file, json_file, stdout, fetched,
                 responses, args, ret>>

\* lines 135-136, and line 133 for the next page
ParsePage ==
  /\ pc = "parse"
  /\ LET page_data == parse_page(html)
     IN IF page_data.exc # ""
        THEN /\ exc' = page_data.exc
             /\ pc' = "crashed"
             /\ UNCHANGED <<all_data, page_i>>
        ELSE /\ all_data' = Append(all_data, page_data.val)
             /\ page_i' = page_i + 1
             /\ pc' = IF page_i < Len(pagination_links) THEN "get_page" ELSE "print"
             /\ exc' = exc
  /\ UNCHANGED <<html, pagination_links, csv_file, json_file, stdout, fetched,
                 responses, args, ret>>

\* lines 138-140 and 147-148
PrintAllData ==
  /\ pc = "print"
  /\ IF all_data # <<>>
     THEN /\ stdout' = Append(stdout, Line("all_data", all_data))
          /\ pc' = "save_csv"
     ELSE /\ stdout' = stdout \o <<Line("all_data", all_data), Line(CouldntSave, <<>>)>>
          /\ pc' = "done"
  /\ UNCHANGED <<html, pagination_links, page_i, all_data, csv_file, json_file,
                 exc, fetched, responses, args, ret>>

\* lines 141-143
SaveToCsv ==
  /\ pc = "save_csv"
  /\ LET r == save_to_csv(all_data)
     IN /\ csv_file' = r.file
        /\ exc' = r.exc
        /\ pc' = IF r.exc # "" THEN "crashed" ELSE "save_json"
  /\ UNCHANGED <<html, pagination_links, page_i, all_data, json_file, stdout,
                 fetched, responses, args, ret>>

\* line 144
SaveToJson ==
  /\ pc = "save_json"
  /\ LET r == save_to_json(all_data)
     IN /\ json_file' = r.file
        /\ exc' = r.exc
        /\ pc' = IF r.exc # "" THEN "crashed" ELSE "saved"
  /\ UNCHANGED <<html, pagination_links, page_i, all_data, csv_file, stdout,
                 fetched, responses, args, ret>>

\* line 146
PrintSaved ==
  /\ pc = "saved"
  /\ stdout' = Append(stdout, Line(Saved, <<>>))
  /\ pc' = "done"
  /\ UNCHANGED <<html, pagination_links, page_i, all_data, csv_file, json_file,
                 exc, fetched, responses, args, ret>>

Next ==
  \/ GetBasePage
  \/ GetPaginationLinks
  \/ GetPage
  \/ ParsePage
  \/ PrintAllData
  \/ SaveToCsv
  \/ SaveToJson
  \/ PrintSaved

Spec == Init /\ [][Next]_vars

(* --------------------------------------------- the functions on their own *)

\* the driver does not run while a function is exercised on its own
Idle ==
  /\ pc = "idle"
  /\ html = None
  /\ pagination_links = <<>>
  /\ page_i = 1
  /\ all_data = <<>>
  /\ csv_file = <<>>
  /\ json_file = <<>>
  /\ stdout = <<>>
  /\ exc = ""
  /\ fetched = <<>>
  /\ responses = <<>>

InitLinks ==
  /\ Idle
  /\ args \in {[html |-> d, url |-> u] : d \in LinkDocs, u \in Urls}
  /\ ret = NoCall

CallGetPaginationLinks ==
  /\ ret = NoCall
  /\ ret' = [fn |-> "get_pagination_links",
             out |-> get_pagination_links(args.html, args.url)]
  /\ UNCHANGED <<driverVars, args>>

SpecLinks == InitLinks /\ [][CallGetPaginationLinks]_vars

InitParse ==
  /\ Idle
  /\ args \in {[html |-> d] : d \in ParseDocs}
  /\ ret = NoCall

CallParsePage ==
  /\ ret = NoCall
  /\ ret' = [fn |-> "parse_page", out |-> parse_page(args.html)]
  /\ UNCHANGED <<driverVars, args>>

SpecParse == InitParse /\ [][CallParsePage]_vars

InitExport ==
  /\ Idle
  /\ args \in {[data |-> d] : d \in ExportData}
  /\ ret = NoCall

CallSaveToCsv ==
  /\ ret = NoCall
  /\ ret' = [fn |-> "save_to_csv", out |-> save_to_csv(args.data)]
  /\ UNCHANGED <<driverVars, args>>

CallSaveToJson ==
  /\ ret = NoCall
  /\ ret' = [fn |-> "save_to_json", out |-> save_to_json(args.data)]
  /\ UNCHANGED <<driverVars, args>>

NextExport == CallSaveToCsv \/ CallSaveToJson

SpecExport == InitExport /\ [][NextExport]_vars

(* ------------------------------------------- vocabulary of the properties *)

IsHttpPrefix(url, m) ==
  \/ m = 7 /\ StartsWith(url, <<"h","t","t","p",":","/","/">>)
  \/ m = 8 /\ StartsWith(url, <<"h","t","t","p","s",":","/","/">>)

\* the first n characters of url are scheme://host and a "/" follows
IsOrigin(url, n) ==
  \E m \in {7, 8} :
    /\ IsHttpPrefix(url, m)
    /\ m < n
    /\ n < Len(url)
    /\ \A i \in (m + 1)..n : url[i] \in HostChars
    /\ url[n + 1] = "/"

HasShape(url) == \E n \in 1..Len(url) : IsOrigin(url, n)

Origin(url) == SubSeq(url, 1, CHOOSE n \in 1..Len(url) : IsOrigin(url, n))

PaginationControls(doc) == find_all(doc.nodes, "ul", <<"pagination">>)

HasPaginationControl(doc) == ~doc.isNone /\ PaginationControls(doc) # <<>>

LacksPaginationControl(doc) == ~doc.isNone /\ PaginationControls(doc) = <<>>

PageLinkAnchors(doc) ==
  find_all(PaginationControls(doc)[1].kids, "a", <<"page-link">>)

LinksCalled == ret.fn = "get_pagination_links"

\* C1: with a pagination control of k page-link anchors, each with an href,
\* and a source URL of the shape scheme://host/rest, get_pagination_links
\* returns k+1 entries: the source URL, then origin + href of each anchor in
\* document order, duplicates kept; [sourceUrl] when k = 0.
C1_LinksInDocumentOrder ==
  (/\ LinksCalled
   /\ HasPaginationControl(args.html)
   /\ HasShape(args.url)
   /\ \A i \in 1..Len(PageLinkAnchors(args.html)) :
        HasAttr(PageLinkAnchors(args.html)[i], "href"))
  => LET anchors == PageLinkAnchors(args.html)
         links == ret.out.val
     IN /\ ret.out.exc = ""
        /\ Len(links) = Len(anchors) + 1
        /\ links[1] = args.url
        /\ \A i \in 1..Len(anchors) :
             links[i + 1] = Origin(args.url) \o Attr(anchors[i], "href")
        /\ (Len(anchors) = 0 => links = <<args.url>>)

\* a control whose two anchors carry the same href gave two equal entries
C1_Witness ==
  /\ LinksCalled
  /\ HasPaginationControl(args.html)
  /\ HasShape(args.url)
  /\ Len(PageLinkAnchors(args.html)) = 2
  /\ ret.out.exc = ""
  /\ Len(ret.out.val) = 3
  /\ ret.out.val[2] = ret.out.val[3]
  /\ ret.out.val[2] # args.url

\* C2: without a pagination control get_pagination_links returns the empty
\* sequence, whatever the source URL is.
C2_NoControlNoLinks ==
  (LinksCalled /\ LacksPaginationControl(args.html))
  => ret.out = Return(<<>>)

\* a page with a page link but no control, and a URL of another shape
C2_Witness ==
  /\ LinksCalled
  /\ LacksPaginationControl(args.html)
  /\ find_all(args.html.nodes, "a", <<"page-link">>) # <<>>
  /\ ~HasShape(args.url)
  /\ ret.out = Return(<<>>)

\* C10 as stated: a source URL of another shape makes get_pagination_links
\* fail, whatever the page holds.
C10_AlwaysFails ==
  (LinksCalled /\ ~args.html.isNone /\ ~HasShape(args.url))
  => ret.out.exc # ""

\* C10 amended: a source URL of another shape makes get_pagination_links
\* fail exactly when the pagination control holds a page-link anchor (with
\* the origin-extraction error when the first anchor has an href); without a
\* control the result is empty, with a control of no anchors [sourceUrl].
C10_FailsOnlyWithAnchors ==
  (LinksCalled /\ ~args.html.isNone /\ ~HasShape(args.url))
  => IF LacksPaginationControl(args.html) THEN ret.out = Return(<<>>)
     ELSE IF PageLinkAnchors(args.html) = <<>> THEN ret.out = Return(<<args.url>>)
     ELSE /\ ret.out.exc # ""
          /\ (HasAttr(PageLinkAnchors(args.html)[1], "href")
              => ret.out.exc = "AttributeError")

\* a URL with no "/" after the host, a control with an anchor: the error
C10_Witness ==
  /\ LinksCalled
  /\ args.url = <<"h","t","t","p",":","/","/","a">>
  /\ HasPaginationControl(args.html)
  /\ PageLinkAnchors(args.html) # <<>>
  /\ ret.out.exc = "AttributeError"

CardBlocks(doc) == find_all(doc.nodes, "div", <<"card-body">>)

TitledAnchors(block) ==
  SelectSeq(find_all(block.kids, "a", <<"title">>), LAMBDA a : HasAttr(a, "title"))

DescriptionParagraphs(block) == find_all(block.kids, "p", DescClass)

PriceHeadings(block) == find_all(block.kids, "h4", <<"price">>)

\* the block has its titled anchor, description paragraph and price heading
WellFormedBlock(block) ==
  /\ find_all(block.kids, "a", <<"title">>) # <<>>
  /\ HasAttr(find_all(block.kids, "a", <<"title">>)[1], "title")
  /\ DescriptionParagraphs(block) # <<>>
  /\ PriceHeadings(block) # <<>>

HasMalformedBlock(doc) ==
  /\ ~doc.isNone
  /\ \E i \in 1..Len(CardBlocks(doc)) : ~WellFormedBlock(CardBlocks(doc)[i])

\* t is s without its leading and trailing whitespace
IsTrimOf(t, s) ==
  /\ \E i \in 1..(Len(s) + 1) :
       /\ t = SubSeq(s, i, i + Len(t) - 1)
       /\ i + Len(t) - 1 <= Len(s)
       /\ \A k \in 1..(i - 1) : s[k] \in Whitespace
       /\ \A k \in (i + Len(t))..Len(s) : s[k] \in Whitespace
  /\ t # <<>> => t[1] \notin Whitespace /\ t[Len(t)] \notin Whitespace

ParseCalled == ret.fn = "parse_page"

\* C3: a page of N card-body blocks, each with its titled anchor, description
\* paragraph and price heading, gives exactly N records in document order,
\* record i holding block i's title attribute, trimmed description text and
\* trimmed price text; N = 0 gives the empty sequence and no error.
C3_OneRecordPerBlock ==
  (/\ ParseCalled
   /\ ~args.html.isNone
   /\ \A i \in 1..Len(CardBlocks(args.html)) :
        WellFormedBlock(CardBlocks(args.html)[i]))
  => LET blocks == CardBlocks(args.html)
         records == ret.out.val
     IN /\ ret.out.exc = ""
        /\ Len(records) = Len(blocks)
        /\ \A i \in 1..Len(blocks) :
             /\ Keys(records[i]) = <<"Name", "Description", "Price">>
             /\ records[i][1][2] = Attr(TitledAnchors(blocks[i])[1], "title")
             /\ IsTrimOf(records[i][2][2], Text(DescriptionParagraphs(blocks[i])[1]))
             /\ IsTrimOf(records[i][3][2], Text(PriceHeadings(blocks[i])[1]))

\* two different well-formed blocks gave their two records, in block order,
\* with surrounding whitespace removed
C3_Witness ==
  /\ ParseCalled
  /\ ~args.html.isNone
  /\ CardBlocks(args.html) = <<Plain, ThinkPad>>
  /\ ret.out.exc = ""
  /\ Len(ret.out.val) = 2
  /\ ret.out.val[1][1][2] = Attr(TitledAnchors(Plain)[1], "title")
  /\ ret.out.val[2][1][2] = Attr(TitledAnchors(ThinkPad)[1], "title")
  /\ ret.out.val[2][2][2] # Text(DescriptionParagraphs(ThinkPad)[1])
  /\ ret.out.val[1][2][2] = <<>>

RECURSIVE SumLen(_)
SumLen(data) == IF data = <<>> THEN 0 ELSE Len(Head(data)) + SumLen(Tail(data))

\* the position in the flattened data of record j of batch b
FlatIndex(data, b, j) == SumLen(SubSeq(data, 1, b - 1)) + j

\* C4: for a non-empty sequence of batches save_to_csv writes the header of
\* the first record's keys and one data row per record of every batch, in
\* batch order then in-batch order, also when the first batch is empty and a
\* later one is not.
C4_HeaderAndAllRows ==
  (ret.fn = "save_to_csv" /\ args.data # <<>>)
  => /\ ret.out.exc = ""
     /\ ret.out.file # <<>>
     /\ LET data == args.data
            csv == ret.out.file[1]
        IN /\ data[1] # <<>> => csv.header = Keys(data[1][1])
           /\ Len(csv.rows) = SumLen(data)
           /\ \A b \in 1..Len(data) : \A j \in 1..Len(data[b]) :
                \A k \in 1..Len(csv.header) :
                  csv.rows[FlatIndex(data, b, j)][k] = DictGet(data[b][j], csv.header[k])

Printed(msg) == \E i \in 1..Len(stdout) : stdout[i].msg = msg

NoFileWritten == csv_file = <<>> /\ json_file = <<>>

\* C5: when the links were obtained and every page was visited but every
\* batch is empty, neither file is written and the driver prints "Couldn't
\* save data into the files" instead of the confirmation.
C5_EmptyAggregateNotSaved ==
  (/\ pc = "done"
   /\ pagination_links # <<>>
   /\ Len(all_data) = Len(pagination_links)
   /\ \A i \in 1..Len(all_data) : all_data[i] = <<>>)
  => /\ NoFileWritten
     /\ Printed(CouldntSave)
     /\ ~Printed(Saved)

\* C6: when the base page was fetched but has no pagination control, the
\* driver prints "Couldn't get the page", fetches no further page, parses no
\* records and writes neither file.
C6_NoControlAbortsRun ==
  (/\ Len(responses) >= 1
   /\ LacksPaginationControl(responses[1])
   /\ pc # "links")
  => /\ pc = "done"
     /\ exc = ""
     /\ stdout = <<Line(CouldntGetPage, <<>>)>>
     /\ fetched = <<base_url>>
     /\ all_data = <<>>
     /\ NoFileWritten

\* the base page had blocks to parse, and the run ended with the message
C6_Witness ==
  /\ pc = "done"
  /\ LacksPaginationControl(responses[1])
  /\ CardBlocks(responses[1]) # <<>>
  /\ Printed(CouldntGetPage)

\* whether the parse of response i has been attempted
Parsed(i) == i < Len(responses) \/ pc \notin {"links", "parse"}

\* C7: a visited page with a block lacking its titled anchor, description
\* paragraph or price heading makes parse_page raise a lookup error and
\* give no records; the driver does not catch it, and the run ends with
\* neither file written, also after earlier pages were parsed.
C7_MalformedBlockAbortsRun ==
  \A i \in 2..Len(responses) :
    (HasMalformedBlock(responses[i]) /\ Parsed(i))
    => /\ i = Len(responses)
       /\ pc = "crashed"
       /\ exc \in {"TypeError", "KeyError", "AttributeError"}
       /\ parse_page(responses[i]).exc = exc
       /\ parse_page(responses[i]).val = <<>>
       /\ Len(all_data) = i - 2
       /\ NoFileWritten
       /\ ~Printed(Saved)

\* the second page's first block was well formed and its second was not,
\* after a first page that gave records
C7_Witness ==
  /\ pc = "crashed"
  /\ Len(responses) = 3
  /\ HasMalformedBlock(responses[3])
  /\ WellFormedBlock(CardBlocks(responses[3])[1])
  /\ Len(all_data) = 1
  /\ all_data[1] # <<>>
  /\ NoFileWritten

\* C8: the base URL is fetched first; the links are then fetched in their
\* order, each page parsed and its batch appended before the next fetch, so
\* batch i belongs to link i; the CSV file is written only after the last
\* batch, the JSON file only after the CSV write has completed.
C8_SequentialOrder ==
  /\ pc # "get_base" => Len(fetched) >= 1 /\ fetched[1] = base_url
  /\ Len(fetched) = Len(responses)
  /\ \A i \in 2..Len(fetched) : fetched[i] = pagination_links[i - 1]
  /\ Len(fetched) > 1 => pc # "links"
  /\ pc = "get_page" => Len(all_data) = Len(fetched) - 1
  /\ pc = "parse" => Len(all_data) = Len(fetched) - 2
  /\ Len(all_data) <= Len(fetched) - 1 \/ (all_data = <<>> /\ fetched = <<>>)
  /\ \A i \in 1..Len(all_data) :
       /\ parse_page(responses[i + 1]).exc = ""
       /\ all_data[i] = parse_page(responses[i + 1]).val
  /\ csv_file # <<>> =>
       /\ pagination_links # <<>>
       /\ Len(all_data) = Len(pagination_links)
       /\ pc \in {"save_json", "saved", "done", "crashed"}
  /\ json_file # <<>> =>
       /\ csv_file # <<>>
       /\ exc = ""
       /\ pc \in {"saved", "done"}

\* a finished run over two links whose pages gave different batches
C8_Witness ==
  /\ pc = "done"
  /\ Len(pagination_links) = 2
  /\ Len(all_data) = 2
  /\ all_data[1] # all_data[2]
  /\ csv_file # <<>>
  /\ json_file # <<>>

\* C9: once a fetch has answered None, for the base URL or for a page URL,
\* the parse of it raises an error the driver does not catch: the run stops
\* there, prints neither failure message nor the confirmation, and writes
\* neither file.
C9_NoContentAbortsRun ==
  \A i \in 1..Len(responses) :
    (responses[i] = None /\ Parsed(i))
    => /\ i = Len(responses)
       /\ pc = "crashed"
       /\ exc = "TypeError"
       /\ ~Printed(CouldntGetPage)
       /\ ~Printed(CouldntSave)
       /\ ~Printed(Saved)
       /\ NoFileWritten
       /\ Len(all_data) = IF i = 1 THEN 0 ELSE i - 2

\* the second page URL answered None after a first page that gave records
C9_Witness ==
  /\ pc = "crashed"
  /\ Len(responses) = 3
  /\ responses[3] = None
  /\ Len(all_data) = 1
  /\ all_data[1] # <<>>
  /\ stdout = <<>>
  /\ NoFileWritten

====
